---- MODULE Spec2Model ----
(***************************************************************************)
(* State-machine model of src/index.tsx: the click handler generateVideos  *)
(* (prompt enhancement, the batch loop, the poll loop with rate-limit      *)
(* backoff, the final fan-out of displayAndDownloadVideo) and setLoading.  *)
(*                                                                         *)
(* JavaScript runs each stretch of code between two awaits without         *)
(* interruption, so every action below is one such stretch: it starts when *)
(* an awaited promise (a remote call, a timer, a fetch) settles and runs   *)
(* up to the next await.  The remote service, the timer and the network    *)
(* are the environment: their answers are the \E-bound inputs.             *)
(***************************************************************************)
EXTENDS Integers, Sequences, FiniteSets, TLC

VARIABLES
    totalVideosToGenerate, \* const totalVideosToGenerate (fixed during a behaviour)
    maxVideosPerRequest,   \* const maxVideosPerRequest (fixed during a behaviour)
    userPrompt,        \* const userPrompt of the last invocation of generateVideos
    pc,                \* where generateVideos is suspended: "idle" | "enhance" | "submit" | "wait" | "poll" | "deliver"
    disabled,          \* generateButton.disabled
    statusDisplay,     \* statusSection.style.display
    statusMessage,     \* statusMessage.textContent, as [kind, batch, n]
    resultsSection,    \* children appended to resultsSection, as [kind, index]
    downloads,         \* indices whose download anchor has been clicked
    allVideoUris,      \* const allVideoUris: string[]
    videosGenerated,   \* let videosGenerated
    batchNumber,       \* let batchNumber
    videosInThisBatch, \* const videosInThisBatch (numberOfVideos of the request in flight)
    operation,         \* let operation, as [job, done, hasVideos, videos]
    messageIndex,      \* let messageIndex
    pollRetries,       \* let pollRetries
    pollDelay,         \* let pollDelay
    deliveries,        \* the calls handed to Promise.all, as [uri, index, state]: "fetch" | "blob" | "fulfilled" | "rejected"
    \* ---- history variables (observations of the run, not program state) ----
    issued,            \* numberOfVideos of every batch submitted in this run, in order
    yielded,           \* number of URIs obtained from every job observed done, in order
    streak,            \* rate-limit poll failures since the last successful poll / submission
    waited,            \* the delay waited before the poll in flight, 0 when none is in flight
    lastPoll,          \* outcome of the last poll of the job in progress: "none" | "ok" | "ratelimit" | "other"
    polls,             \* successful polls of the job in progress
    terminal,          \* jobs whose handle was observed done or whose poll loop threw
    failedBatch,       \* batchNumber of the batch whose poll loop ended in a failure, 0 if none
    returned,          \* the URIs in the result of every job observed done, in the service's order
    enhanceFailed      \* the enhancePrompt call of this run was rejected

config == <<totalVideosToGenerate, maxVideosPerRequest>>

\* what only Click and EnhanceReturn write
entry == <<userPrompt, enhanceFailed>>

vars == <<totalVideosToGenerate, maxVideosPerRequest, pc, disabled, statusDisplay, statusMessage, resultsSection, downloads,
          allVideoUris, videosGenerated, batchNumber, videosInThisBatch, operation,
          messageIndex, pollRetries, pollDelay, deliveries,
          issued, yielded, streak, waited, lastPoll, polls, terminal, failedBatch,
          userPrompt, returned, enhanceFailed>>

----------------------------------------------------------------------------
(* Program constants *)

ShippedTotal == 5
ShippedMaxPerRequest == 2
maxPollRetries == 5
baseDelay == 20000
maxDelay == 60000
loadingMessagesLength == 4

(* Bounds of the model *)

\* successful not-done polls the remote answers per job before it must finish or fail
MaxPolls == 2
\* batches the remote accepts per run; a later submission is rejected
MaxBatches == 4
\* the configurations other than the shipped one that SpecAny starts from
MaxTotal == 2
MaxPerRequest == 2

Shipped == [total |-> ShippedTotal, maxPer |-> ShippedMaxPerRequest]

Configs == {Shipped} \cup [total : 1..MaxTotal, maxPer : 1..MaxPerRequest]

----------------------------------------------------------------------------
(* Helpers *)

Min(a, b) == IF a < b THEN a ELSE b

\* Math.ceil(a / b) for positive integers
Ceil(a, b) == (a + b - 1) \div b

RECURSIVE Pow2(_)
Pow2(k) == IF k = 0 THEN 1 ELSE 2 * Pow2(k - 1)

RECURSIVE SumSeq(_)
SumSeq(s) == IF s = <<>> THEN 0 ELSE Head(s) + SumSeq(Tail(s))

BoolSeqs(n) == UNION {[1..k -> BOOLEAN] : k \in 0..n}

Status(kind, batch, n) == [kind |-> kind, batch |-> batch, n |-> n]

ErrorKinds == {"errEnhance", "errSubmit", "errPoll", "errEmpty", "errDeliver"}

\* statusMessage.textContent?.includes('Rate limit')
IncludesRateLimit(s) == s.kind = "ratelimit"

----------------------------------------------------------------------------
(* The environment's answers *)

PendingOp(job) == [job |-> job, done |-> FALSE, hasVideos |-> FALSE, videos |-> <<>>]

\* A handle as the service may return it for job: not done, or done with no
\* response.generatedVideos, or done with a list of videos, each with (TRUE) or
\* without (FALSE) a uri.  The list may be shorter or longer than the
\* numberOfVideos asked for, up to the service's ceiling per request (line 35).
Operations(job) ==
    {PendingOp(job)}
    \cup {[job |-> job, done |-> TRUE, hasVideos |-> FALSE, videos |-> <<>>]}
    \cup {[job |-> job, done |-> TRUE, hasVideos |-> TRUE, videos |-> v] :
             v \in BoolSeqs(maxVideosPerRequest)}

\* What a rejected poll throws: an Error or another value, whose text contains
\* '429' and/or 'RESOURCE_EXHAUSTED' or neither.
PollErrors == [isError : BOOLEAN, has429 : BOOLEAN, hasExhausted : BOOLEAN]

----------------------------------------------------------------------------
(* Pure pieces of generateVideos *)

\* (variant) the empty-prompt check is missing
EmptyPromptNever(prompt) == FALSE

\* line 21
EmptyPrompt(prompt) == prompt = ""

\* (variant) setLoading leaves the button enabled
SetLoadingDisabledNever(isLoading) == FALSE

\* lines 182 and 186: generateButton.disabled after setLoading(isLoading)
SetLoadingDisabled(isLoading) == isLoading

\* lines 183 and 187: statusSection.style.display after setLoading(isLoading)
SetLoadingDisplay(isLoading) == IF isLoading THEN "flex" ELSE "none"

\* (variant) enhancePrompt swallows the failure and returns the original prompt
EnhanceFallsBack(ok) == FALSE

\* lines 32 and 128-134: enhancePrompt has no catch, a failed generateContent
\* rejects it and the await at line 32 throws
EnhanceThrows(ok) == ~ok

\* (variant) the remainder is forgotten: every batch asks for the maximum
BatchSizeAlwaysMax(generated) == maxVideosPerRequest

\* line 42
BatchSize(generated) == Min(maxVideosPerRequest, totalVideosToGenerate - generated)

\* (variant) off by one: the loop stops one video short
BatchLoopCondOneShort(generated) == generated + 1 < totalVideosToGenerate

\* line 41
BatchLoopCond(generated) == generated < totalVideosToGenerate

\* (variant) the loop waits for a response instead of the done flag
PollLoopUntilResponse(op) == ~op.hasVideos

\* line 68
PollLoopCond(op) == ~op.done

\* line 85
IsRateLimitError(e) == e.isError /\ (e.has429 \/ e.hasExhausted)

\* (variant) off by one: a retry is still granted when pollRetries = maxPollRetries
ShouldRetryOneMore(e, retries) == IsRateLimitError(e) /\ retries <= maxPollRetries

\* (variant) the classification is dropped: any failure is retried while retries remain
ShouldRetryAnyError(e, retries) == retries < maxPollRetries

\* line 87
ShouldRetry(e, retries) == IsRateLimitError(e) /\ retries < maxPollRetries

\* (variant) the rejected call clobbers the handle
HandleLostOnFailedPoll(op) == [op EXCEPT !.job = 0]

\* line 80: the assignment to operation does not happen when the await throws
HandleAfterFailedPoll(op) == op

\* (variant) the cap is forgotten
NextDelayUncapped(delay) == delay * 2

\* line 90
NextDelay(delay) == Min(maxDelay, delay * 2)

\* (variant) only the counter is reset, the delay stays backed off
AfterSuccessfulPollKeepsDelay(retries, delay) == [retries |-> 0, delay |-> delay]

\* lines 82-83
AfterSuccessfulPoll(retries, delay) == [retries |-> 0, delay |-> baseDelay]

\* (variant) the result is never checked
NoVideosNever(op) == FALSE

\* (variant) only a missing list is checked, not an empty one
NoVideosMissingOnly(op) == ~op.hasVideos

\* line 102
NoVideos(op) == ~op.hasVideos \/ Len(op.videos) = 0

\* line 106: map(v => v.video?.uri).filter(Boolean); the uri of the video at
\* position i of job j's response is <<j, i>>
Indices(videos) == {i \in 1..Len(videos) : videos[i]}

RECURSIVE SortedSeq(_)
SortedSeq(S) ==
    IF S = {} THEN <<>>
    ELSE LET m == CHOOSE x \in S : \A y \in S : x <= y
         IN  <<m>> \o SortedSeq(S \ {m})

\* (variant) the URIs of a batch are taken in reverse order
BatchVideoUrisReversed(op) ==
    LET idx == SortedSeq(Indices(op.videos))
    IN  [k \in 1..Len(idx) |-> <<op.job, idx[Len(idx) + 1 - k]>>]

BatchVideoUris(op) ==
    LET idx == SortedSeq(Indices(op.videos))
    IN  [k \in 1..Len(idx) |-> <<op.job, idx[k]>>]

\* (variant) the catch block rethrows, so a failed delivery rejects
DeliveryPromiseRethrows(failed) == IF failed THEN "rejected" ELSE "fulfilled"

\* lines 137 and 171-177: displayAndDownloadVideo catches whatever its body throws,
\* so the promise it returns fulfils whether the delivery failed or not
DeliveryPromise(failed) == "fulfilled"

\* (variant) Promise.race: the first delivery to settle settles the join
PromiseRaceSettles(ds) ==
    \E i \in 1..Len(ds) : ds[i].state \in {"fulfilled", "rejected"}

\* lines 116-118: Promise.all fulfils when every promise has fulfilled and
\* rejects as soon as one rejects
PromiseAllSettles(ds) ==
    \/ \A i \in 1..Len(ds) : ds[i].state = "fulfilled"
    \/ \E i \in 1..Len(ds) : ds[i].state = "rejected"

----------------------------------------------------------------------------
(* History bookkeeping: what an observer of the run records *)

\* a done handle that carries no generated video
EmptyResult(op) == op.done /\ (~op.hasVideos \/ op.videos = <<>>)

\* a poll failure that is fatal (not a rate-limit failure) or that comes when the
\* streak of rate-limit failures has used up the retries
FatalPollFailure(e) == ~IsRateLimitError(e) \/ streak >= maxPollRetries

\* the URIs the service put in job's result, from position i on, in its order
RECURSIVE RefsFrom(_, _, _)
RefsFrom(job, videos, i) ==
    IF i > Len(videos) THEN <<>>
    ELSE (IF videos[i] THEN << <<job, i>> >> ELSE <<>>) \o RefsFrom(job, videos, i + 1)

ObserveHandle(op) ==
    /\ returned' = IF op.done THEN Append(returned, RefsFrom(op.job, op.videos, 1)) ELSE returned
    /\ terminal' = IF op.done THEN terminal \cup {op.job} ELSE terminal
    /\ yielded' = IF op.done THEN Append(yielded, Len(BatchVideoUris(op))) ELSE yielded
    /\ failedBatch' = IF EmptyResult(op) THEN op.job ELSE failedBatch

----------------------------------------------------------------------------
(* Init: the page after load, before any click *)

InitWith(configs) ==
    /\ \E c \in configs :
         /\ totalVideosToGenerate = c.total
         /\ maxVideosPerRequest = c.maxPer
    /\ pc = "idle"
    /\ disabled = FALSE
    /\ statusDisplay = "none"
    /\ statusMessage = Status("blank", 0, 0)
    /\ resultsSection = {}
    /\ downloads = {}
    /\ allVideoUris = <<>>
    /\ videosGenerated = 0
    /\ batchNumber = 1
    /\ videosInThisBatch = 0
    /\ operation = PendingOp(0)
    /\ messageIndex = 0
    /\ pollRetries = 0
    /\ pollDelay = baseDelay
    /\ deliveries = <<>>
    /\ issued = <<>>
    /\ yielded = <<>>
    /\ streak = 0
    /\ waited = 0
    /\ lastPoll = "none"
    /\ polls = 0
    /\ terminal = {}
    /\ failedBatch = 0
    /\ userPrompt = ""
    /\ returned = <<>>
    /\ enhanceFailed = FALSE

\* lines 34-35: the program as shipped
Init == InitWith({Shipped})

\* the same program with the two constants set otherwise
InitAny == InitWith(Configs)

----------------------------------------------------------------------------
(* Stretches of generateVideos shared by several actions *)

\* lines 120-125: catch (statusMessage <- the error) and finally (setLoading(false))
Throw(s) ==
    /\ pc' = "idle"
    /\ statusMessage' = s
    /\ disabled' = SetLoadingDisabled(FALSE)
    /\ statusDisplay' = SetLoadingDisplay(FALSE)
    /\ UNCHANGED <<videosInThisBatch, issued, deliveries>>

\* lines 41-47 and 113-118: the test of the batch loop, then either the next
\* submission or the fan-out of displayAndDownloadVideo over allVideoUris
BatchLoopHead(generated, bn, uris) ==
    IF BatchLoopCond(generated)
    THEN /\ videosInThisBatch' = BatchSize(generated)
         /\ statusMessage' = Status("batchStart", bn, Ceil(totalVideosToGenerate, maxVideosPerRequest))
         /\ issued' = Append(issued, BatchSize(generated))
         /\ pc' = "submit"
         /\ UNCHANGED <<deliveries, disabled, statusDisplay>>
    ELSE /\ statusMessage' = Status("finalizing", 0, 0)
         /\ deliveries' = [i \in 1..Len(uris) |-> [uri |-> uris[i], index |-> i, state |-> "fetch"]]
         /\ pc' = "deliver"
         /\ UNCHANGED <<videosInThisBatch, issued, disabled, statusDisplay>>

\* lines 102-110: after the poll loop
AfterPollLoop(op) ==
    IF NoVideos(op)
    THEN /\ Throw(Status("errEmpty", batchNumber, 0))
         /\ UNCHANGED <<allVideoUris, videosGenerated, batchNumber>>
    ELSE LET batchVideoUris == BatchVideoUris(op)
         IN  /\ allVideoUris' = allVideoUris \o batchVideoUris
             /\ videosGenerated' = videosGenerated + Len(batchVideoUris)
             /\ batchNumber' = batchNumber + 1
             /\ BatchLoopHead(videosGenerated + Len(batchVideoUris), batchNumber + 1,
                              allVideoUris \o batchVideoUris)

\* lines 68-77: the test of the poll loop on handle op, with messageIndex = idx and
\* statusMessage.textContent = s; then the flavor message and the timer, or the
\* code after the loop
PollLoopHead(op, idx, s) ==
    IF PollLoopCond(op)
    THEN /\ statusMessage' = IF IncludesRateLimit(s) THEN s
                             ELSE Status("flavor", batchNumber, idx % loadingMessagesLength)
         /\ messageIndex' = idx + 1
         /\ pc' = "wait"
         /\ UNCHANGED <<allVideoUris, videosGenerated, batchNumber, videosInThisBatch,
                        issued, deliveries, disabled, statusDisplay>>
    ELSE /\ messageIndex' = 0    \* the block that declares it is left
         /\ AfterPollLoop(op)

----------------------------------------------------------------------------
(* Actions *)

Prompts == {"", "a cat"}

\* lines 19-32: a click on the enabled button, up to the await of enhancePrompt
Click ==
    /\ ~disabled
    /\ \E prompt \in Prompts :
         IF EmptyPrompt(prompt)
         THEN /\ userPrompt' = prompt
              /\ UNCHANGED <<config, pc, disabled, statusDisplay, statusMessage,
                             resultsSection, downloads, allVideoUris, videosGenerated,
                             batchNumber, videosInThisBatch, operation, messageIndex,
                             pollRetries, pollDelay, deliveries, issued, yielded, streak,
                             waited, lastPoll, polls, terminal, failedBatch, returned,
                             enhanceFailed>>
         ELSE /\ userPrompt' = prompt
              /\ disabled' = SetLoadingDisabled(TRUE)
              /\ statusDisplay' = SetLoadingDisplay(TRUE)
              /\ statusMessage' = Status("enhancing", 0, 0)
              /\ resultsSection' = {}
              /\ pc' = "enhance"
              \* a new invocation: fresh locals, fresh history
              /\ allVideoUris' = <<>>
              /\ videosGenerated' = 0
              /\ batchNumber' = 1
              /\ videosInThisBatch' = 0
              /\ operation' = PendingOp(0)
              /\ messageIndex' = 0
              /\ pollRetries' = 0
              /\ pollDelay' = baseDelay
              /\ deliveries' = <<>>
              /\ downloads' = {}
              /\ issued' = <<>>
              /\ yielded' = <<>>
              /\ streak' = 0
              /\ waited' = 0
              /\ lastPoll' = "none"
              /\ polls' = 0
              /\ terminal' = {}
              /\ failedBatch' = 0
              /\ returned' = <<>>
              /\ enhanceFailed' = FALSE
              /\ UNCHANGED config

\* lines 32-47: enhancePrompt settles
EnhanceReturn ==
    /\ pc = "enhance"
    /\ \E ok \in BOOLEAN :
         /\ enhanceFailed' = ~ok
         /\ IF ~EnhanceThrows(ok)
            THEN /\ allVideoUris' = <<>>
                 /\ videosGenerated' = 0
                 /\ batchNumber' = 1
                 /\ BatchLoopHead(0, 1, <<>>)
            ELSE /\ Throw(Status("errEnhance", 0, 0))
                 /\ UNCHANGED <<allVideoUris, videosGenerated, batchNumber>>
    /\ UNCHANGED <<resultsSection, downloads, operation, messageIndex, pollRetries, pollDelay,
                   yielded, streak, waited, lastPoll, polls, terminal, failedBatch, config,
                   userPrompt, returned>>

\* lines 47-77 (and 102-118 when the handle is already done): generateVideos settles
SubmitReturn ==
    /\ pc = "submit"
    /\ \/ /\ batchNumber <= MaxBatches
          /\ \E op \in Operations(batchNumber) :
               /\ operation' = op
               /\ pollRetries' = 0
               /\ pollDelay' = baseDelay
               /\ PollLoopHead(op, 0, statusMessage)
               /\ ObserveHandle(op)
               /\ streak' = 0
               /\ lastPoll' = "none"
               /\ polls' = 0
       \/ /\ Throw(Status("errSubmit", 0, 0))
          /\ UNCHANGED <<allVideoUris, videosGenerated, batchNumber, operation, messageIndex,
                         pollRetries, pollDelay, yielded, streak, lastPoll, polls, terminal,
                         failedBatch, returned>>
    /\ UNCHANGED <<resultsSection, downloads, waited, config, entry>>

\* line 77: the timer of pollDelay ms fires; line 80 calls getVideosOperation
TimerFire ==
    /\ pc = "wait"
    /\ pc' = "poll"
    /\ waited' = pollDelay
    /\ UNCHANGED <<disabled, statusDisplay, statusMessage, resultsSection, downloads,
                   allVideoUris, videosGenerated, batchNumber, videosInThisBatch, operation,
                   messageIndex, pollRetries, pollDelay, deliveries, issued, yielded, streak,
                   lastPoll, polls, terminal, failedBatch, config, entry, returned>>

\* lines 80-83, then 68-77 or 102-118: getVideosOperation fulfils
PollOk ==
    /\ pc = "poll"
    /\ polls <= MaxPolls
    /\ \E op \in Operations(operation.job) :
         /\ op.done \/ polls < MaxPolls
         /\ operation' = op
         /\ pollRetries' = AfterSuccessfulPoll(pollRetries, pollDelay).retries
         /\ pollDelay' = AfterSuccessfulPoll(pollRetries, pollDelay).delay
         /\ PollLoopHead(op, messageIndex, statusMessage)
         /\ ObserveHandle(op)
         /\ lastPoll' = IF PollLoopCond(op) THEN "ok" ELSE "none"
         /\ polls' = IF PollLoopCond(op) THEN polls + 1 ELSE 0
    /\ streak' = 0
    /\ waited' = 0
    /\ UNCHANGED <<resultsSection, downloads, config, entry>>

\* lines 84-99, then 68-77 on continue: getVideosOperation rejects
PollFail ==
    /\ pc = "poll"
    /\ \E e \in PollErrors :
         /\ IF ShouldRetry(e, pollRetries)
            THEN /\ pollRetries' = pollRetries + 1
                 /\ pollDelay' = NextDelay(pollDelay)
                 /\ operation' = HandleAfterFailedPoll(operation)
                 /\ PollLoopHead(HandleAfterFailedPoll(operation), messageIndex,
                                 Status("ratelimit", 0, NextDelay(pollDelay) \div 1000))
                 /\ terminal' = terminal
            ELSE /\ Throw(Status("errPoll", 0, pollRetries))
                 /\ terminal' = terminal \cup {operation.job}
                 /\ UNCHANGED <<pollRetries, pollDelay, messageIndex, allVideoUris,
                                videosGenerated, batchNumber, operation>>
         /\ streak' = IF IsRateLimitError(e) THEN streak + 1 ELSE streak
         /\ lastPoll' = IF IsRateLimitError(e) THEN "ratelimit" ELSE "other"
         /\ failedBatch' = IF FatalPollFailure(e) THEN operation.job ELSE failedBatch
    /\ waited' = 0
    /\ UNCHANGED <<resultsSection, downloads, yielded, polls, config, entry, returned>>

\* lines 171-176: the catch block of displayAndDownloadVideo for position i
DeliveryFailed(i) ==
    /\ resultsSection' = resultsSection \cup {[kind |-> "error", index |-> deliveries[i].index]}
    /\ deliveries' = [deliveries EXCEPT ![i].state = DeliveryPromise(TRUE)]
    /\ UNCHANGED downloads

\* lines 138-142: fetch settles for position i; response.ok is checked and
\* response.blob() awaited
FetchReturn ==
    /\ \E i \in 1..Len(deliveries) :
         /\ deliveries[i].state = "fetch"
         /\ \E result \in {"ok", "notOk", "rejected"} :
              IF result = "ok"
              THEN /\ deliveries' = [deliveries EXCEPT ![i].state = "blob"]
                   /\ UNCHANGED <<resultsSection, downloads>>
              ELSE DeliveryFailed(i)
    /\ UNCHANGED <<pc, disabled, statusDisplay, statusMessage, allVideoUris, videosGenerated,
                   batchNumber, videosInThisBatch, operation, messageIndex, pollRetries,
                   pollDelay, issued, yielded, streak, waited, lastPoll, polls, terminal,
                   failedBatch, config, entry, returned>>

\* lines 142-169: response.blob() settles for position i; the video is displayed
\* and its download triggered
BlobReturn ==
    /\ \E i \in 1..Len(deliveries) :
         /\ deliveries[i].state = "blob"
         /\ \E ok \in BOOLEAN :
              IF ok
              THEN /\ resultsSection' = resultsSection \cup
                                          {[kind |-> "video", index |-> deliveries[i].index]}
                   /\ downloads' = downloads \cup {deliveries[i].index}
                   /\ deliveries' = [deliveries EXCEPT ![i].state = DeliveryPromise(FALSE)]
              ELSE DeliveryFailed(i)
    /\ UNCHANGED <<pc, disabled, statusDisplay, statusMessage, allVideoUris, videosGenerated,
                   batchNumber, videosInThisBatch, operation, messageIndex, pollRetries,
                   pollDelay, issued, yielded, streak, waited, lastPoll, polls, terminal,
                   failedBatch, config, entry, returned>>

\* lines 116-125: Promise.all settles (fulfils when every promise has fulfilled,
\* rejects as soon as one rejects); catch if it rejected, then finally
JoinReturn ==
    /\ pc = "deliver"
    /\ PromiseAllSettles(deliveries)
    /\ statusMessage' = IF \E i \in 1..Len(deliveries) : deliveries[i].state = "rejected"
                        THEN Status("errDeliver", 0, 0)
                        ELSE statusMessage
    /\ disabled' = SetLoadingDisabled(FALSE)
    /\ statusDisplay' = SetLoadingDisplay(FALSE)
    /\ pc' = "idle"
    /\ UNCHANGED <<resultsSection, downloads, allVideoUris, videosGenerated, batchNumber,
                   videosInThisBatch, operation, messageIndex, pollRetries, pollDelay,
                   deliveries, issued, yielded, streak, waited, lastPoll, polls, terminal,
                   failedBatch, config, entry, returned>>

Next ==
    \/ Click
    \/ EnhanceReturn
    \/ SubmitReturn
    \/ TimerFire
    \/ PollOk
    \/ PollFail
    \/ FetchReturn
    \/ BlobReturn
    \/ JoinReturn

Spec == Init /\ [][Next]_vars

SpecAny == InitAny /\ [][Next]_vars

----------------------------------------------------------------------------
(* Properties *)

\* the run ended through the fan-out, without reaching the catch block
RunSucceeded == pc = "idle" /\ statusMessage.kind = "finalizing"

\* the run ended in the catch block
RunAborted == pc = "idle" /\ statusMessage.kind \in ErrorKinds

\* every job observed done so far yielded exactly the URIs its batch asked for
ExactYields ==
    \A k \in 1..Len(yielded) : k <= Len(issued) /\ yielded[k] = issued[k]

\* every job observed done so far yielded at least one URI
AllYieldSome == \A k \in 1..Len(yielded) : yielded[k] >= 1

\* C1 as claimed: whenever a run has completed successfully, the numberOfVideos
\* of the batches submitted in it add up to totalVideosToGenerate, whatever the
\* remote service answered.
C1_SumOfRequestsIsTotal ==
    RunSucceeded => SumSeq(issued) = totalVideosToGenerate

\* C1 amended: whenever a run has completed successfully and every job yielded
\* exactly as many URIs as its batch requested, the numberOfVideos of the
\* batches submitted add up to totalVideosToGenerate.
C1_SumOfRequestsIsTotalWhenExact ==
    (RunSucceeded /\ ExactYields) => SumSeq(issued) = totalVideosToGenerate

C1_Witness ==
    RunSucceeded /\ ExactYields /\ issued = <<2, 2, 1>>

\* C2: in a run where every job observed done yielded at least one URI, no more
\* than ceil(totalVideosToGenerate / maxVideosPerRequest) batches are submitted
\* (so the k of "Batch k of n" never exceeds n), and a run that completes
\* successfully has submitted exactly that many.
C2_BatchCountIsCeil ==
    AllYieldSome =>
        /\ Len(issued) <= Ceil(totalVideosToGenerate, maxVideosPerRequest)
        /\ statusMessage.kind = "batchStart" => statusMessage.batch <= statusMessage.n
        /\ RunSucceeded => Len(issued) = Ceil(totalVideosToGenerate, maxVideosPerRequest)

\* C3: once a job has been observed done with zero URIs obtained from its
\* result, the run is aborted with an error and no further batch has been
\* submitted.
C3_ZeroUrisAborts ==
    (\E k \in 1..Len(yielded) : yielded[k] = 0) =>
        /\ RunAborted
        /\ Len(issued) = Len(yielded)

C5_SixthRateLimitFailureIsFatal ==
    /\ streak <= 6
    /\ pc \in {"wait", "poll"} => streak <= 5 /\ pollRetries <= 5
    /\ streak = 6 => RunAborted /\ statusMessage.kind = "errPoll"

C5_Witness ==
    streak = 6 /\ pc = "idle" /\ statusMessage = Status("errPoll", 0, 5)

\* C6: after a poll failure that is not classified as a rate-limit failure the
\* run is over with the polling error, whatever pollRetries and pollDelay were.
C6_OtherFailureIsFatal ==
    lastPoll = "other" => RunAborted /\ statusMessage.kind = "errPoll"

C6_Witness ==
    lastPoll = "other" /\ pollRetries = 3 /\ pollDelay = 60000 /\ pc = "idle"

\* C7: the delay waited before a poll that follows k consecutive rate-limit
\* failures is min(60000, 20000 * 2^k) ms, hence within [20000, 60000].
C7_BackoffDelay ==
    pc = "poll" =>
        /\ waited = Min(60000, 20000 * Pow2(streak))
        /\ 20000 <= waited /\ waited <= 60000

C7_Witness ==
    pc = "poll" /\ streak = 3 /\ waited = 60000

RetryState == <<pollRetries, pollDelay>>

SuccessfulPollStep == pc = "poll" /\ lastPoll' \in {"ok", "none"}

RetriedFailureStep == pc = "poll" /\ lastPoll' = "ratelimit" /\ pc' = "wait"

\* C8: every successful poll leaves (pollRetries, pollDelay) = (0, 20000); every
\* accepted submission starts its poll loop from (0, 20000); and the pair changes
\* in no step other than a successful poll, a retried rate-limit failure, the
\* start of a batch or the start of a run.
C8_RetryStateDiscipline ==
    [][ /\ SuccessfulPollStep => RetryState' = <<0, 20000>>
        /\ (pc = "submit" /\ pc' = "wait") => RetryState' = <<0, 20000>>
        /\ RetryState' # RetryState =>
              \/ SuccessfulPollStep
              \/ RetriedFailureStep
              \/ pc = "submit"
              \/ pc = "idle" ]_vars

C8_Witness ==
    /\ pc = "wait" /\ lastPoll = "ok" /\ statusMessage.kind = "ratelimit"
    /\ RetryState = <<0, 20000>>

\* C9: no timer is awaited and no poll is in flight for a job whose handle has
\* been observed done or whose poll loop has thrown.
C9_TerminalIsAbsorbing ==
    pc \in {"wait", "poll"} => operation.job \notin terminal

C9_Witness ==
    pc = "poll" /\ operation.job = 2 /\ terminal = {1}

\* position i has its video displayed and its download triggered
Delivered(i) ==
    /\ [kind |-> "video", index |-> i] \in resultsSection
    /\ i \in downloads
    /\ [kind |-> "error", index |-> i] \notin resultsSection

\* position i has its error notice instead
Undelivered(i) ==
    /\ [kind |-> "error", index |-> i] \in resultsSection
    /\ i \notin downloads
    /\ [kind |-> "video", index |-> i] \notin resultsSection

\* C10: a delivery failure at one position leaves the others as they would be
\* without it and the run a success: when a run that reached the fan-out is
\* over, it ended without an error status, every delivery has settled, and each
\* position has either its video displayed and downloaded or its own error
\* notice, never both; while the fan-out runs, each position has its child
\* exactly when its own delivery has settled.
C10_DeliveryIsolation ==
    /\ (pc = "idle" /\ deliveries # <<>>) =>
          /\ RunSucceeded
          /\ \A i \in 1..Len(deliveries) :
                deliveries[i].state = "fulfilled" /\ (Delivered(i) \/ Undelivered(i))
    /\ pc = "deliver" =>
          \A i \in 1..Len(deliveries) :
             \/ deliveries[i].state \in {"fetch", "blob"} /\ ~Delivered(i) /\ ~Undelivered(i)
             \/ deliveries[i].state = "fulfilled" /\ (Delivered(i) \/ Undelivered(i))

C10_Witness ==
    /\ RunSucceeded
    /\ Len(deliveries) = 5
    /\ Undelivered(3)
    /\ \A j \in {1, 2, 4, 5} : Delivered(j)

\* the fan-out at lines 116-118 has been reached
FanOutReached == pc = "deliver" \/ (pc = "idle" /\ deliveries # <<>>)

\* C11: whenever the batch loop has finished and the fan-out is reached, at
\* least totalVideosToGenerate URIs have been accumulated, every one of them
\* counted in videosGenerated and handed to a delivery; a run that has fewer
\* and is over has aborted.
C11_FanOutHasAtLeastTotal ==
    /\ FanOutReached =>
          /\ Len(allVideoUris) >= totalVideosToGenerate
          /\ videosGenerated = Len(allVideoUris)
          /\ Len(deliveries) = Len(allVideoUris)
    /\ (pc = "idle" /\ statusMessage.kind # "blank"
           /\ Len(allVideoUris) < totalVideosToGenerate) => RunAborted

\* the third batch was asked for one video and returned two: six URIs fan out
C11_Witness ==
    /\ pc = "deliver"
    /\ Len(allVideoUris) = totalVideosToGenerate + 1
    /\ Len(deliveries) = totalVideosToGenerate + 1

RECURSIVE Concat(_)
Concat(seqs) == IF seqs = <<>> THEN <<>> ELSE Head(seqs) \o Concat(Tail(seqs))

IsPrefix(a, b) == Len(a) <= Len(b) /\ SubSeq(b, 1, Len(a)) = a

\* C12: allVideoUris always is the concatenation, in the order the jobs were
\* submitted, of the URI sequences the service returned for the jobs that are
\* done, each in the service's order; it only grows during a run (a new run
\* starts from the empty list); and the delivery dispatched with position p
\* carries its p-th element.
C12_AccumulatedInBatchOrder ==
    /\ allVideoUris = Concat(returned)
    /\ \A i \in 1..Len(deliveries) :
          deliveries[i].index = i /\ deliveries[i].uri = allVideoUris[i]
    /\ [][ /\ allVideoUris' = Concat(returned')
           /\ \A i \in 1..Len(deliveries') :
                 deliveries'[i].index = i /\ deliveries'[i].uri = allVideoUris'[i]
           /\ IsPrefix(allVideoUris, allVideoUris') \/ (pc = "idle" /\ pc' = "enhance")
        ]_vars

\* the first video of the first job came without a URI: the list starts with
\* the job's second video, and the deliveries follow the list
C12_Witness ==
    /\ pc = "deliver"
    /\ Len(allVideoUris) >= 5
    /\ allVideoUris[1] = <<1, 2>>
    /\ allVideoUris[2] = <<2, 1>>
    /\ allVideoUris[3] = <<2, 2>>
    /\ deliveries[3].uri = <<2, 2>>

\* C13: when enhancePrompt fails the run is over with the error shown and the
\* button released, enhancePrompt is not called again, and no batch was
\* submitted, no job polled and no delivery dispatched.
C13_EnhanceFailureAborts ==
    enhanceFailed =>
       /\ RunAborted
       /\ statusMessage = Status("errEnhance", 0, 0)
       /\ disabled = FALSE
       /\ issued = <<>>
       /\ polls = 0 /\ lastPoll = "none" /\ terminal = {} /\ returned = <<>>
       /\ deliveries = <<>> /\ resultsSection = {} /\ downloads = {}
       /\ allVideoUris = <<>>

C13_Witness == enhanceFailed /\ RunAborted /\ userPrompt # ""

\* job k has been submitted and no poll has ended it
Outstanding(k) == k \in 1..Len(issued) /\ k \notin terminal

BatchErrorKinds == {"errSubmit", "errPoll", "errEmpty"}

\* C15: every fatal batch failure (submission rejected, fatal poll failure,
\* retries exhausted, empty result) ends the run with one error status that
\* names the index of the failing batch, which is the last batch submitted.
C15_BatchErrorNamesBatch ==
    (RunAborted /\ statusMessage.kind \in BatchErrorKinds) =>
       /\ Len(issued) >= 1
       /\ statusMessage.batch = Len(issued)

\* C16: a poll failure that is retried adds one to pollRetries and doubles
\* pollDelay up to the cap, and leaves the operation handle, videosGenerated,
\* allVideoUris, batchNumber and the size of the batch unchanged; the run
\* goes on to wait for, and then issue, the next poll on the same handle.
C16_RetriedFailureFrame ==
    [][ /\ RetriedFailureStep =>
             /\ pollRetries' = pollRetries + 1
             /\ pollDelay' = Min(maxDelay, 2 * pollDelay)
             /\ UNCHANGED <<operation, videosGenerated, allVideoUris, batchNumber,
                            videosInThisBatch, issued, yielded, returned, terminal,
                            deliveries, resultsSection, downloads, disabled>>
        /\ (pc = "wait" /\ pc' = "poll") => UNCHANGED operation
      ]_vars

\* the second batch is waiting after its second retried failure in a row
C16_Witness ==
    /\ pc = "wait"
    /\ lastPoll = "ratelimit"
    /\ streak = 2
    /\ pollRetries = 2
    /\ pollDelay = 60000
    /\ operation.job = 2
    /\ Len(allVideoUris) = 2

\* C17: in every poll cycle that is not a backoff wait (the first of a batch
\* and each one after a successful poll that found the job not done) the
\* status shows the flavor message of that cycle for the current batch, the
\* four of them taken in turn; a backoff message is on show only while the
\* run waits after a rate-limit failure.
C17_FlavorMessageEveryCycle ==
    /\ (pc \in {"wait", "poll"} /\ lastPoll \in {"none", "ok"}) =>
          statusMessage = Status("flavor", batchNumber,
                                 (messageIndex - 1) % loadingMessagesLength)
    /\ statusMessage.kind = "ratelimit" =>
          pc \in {"wait", "poll"} /\ lastPoll = "ratelimit"

Settled(i) == deliveries[i].state \in {"fulfilled", "rejected"}

\* C18: no delivery is dispatched before the last batch has succeeded: once
\* there are deliveries the batch loop is over, every job is done and none is
\* submitted any more; and the run reports completion (overlay hidden, button
\* enabled) only when every dispatched delivery has settled, whichever
\* settled first; until then the button stays disabled and the overlay shown.
C18_FanOutBetweenLoopAndCompletion ==
    /\ deliveries # <<>> =>
          /\ ~BatchLoopCond(videosGenerated)
          /\ pc \in {"deliver", "idle"}
          /\ \A k \in 1..Len(issued) : ~Outstanding(k)
          /\ failedBatch = 0
    /\ pc \in {"enhance", "submit", "wait", "poll"} => deliveries = <<>>
    /\ (deliveries # <<>> /\ (pc = "idle" \/ ~disabled \/ statusDisplay = "none")) =>
          /\ \A i \in 1..Len(deliveries) : Settled(i)
          /\ pc = "idle" /\ ~disabled /\ statusDisplay = "none"

\* deliveries settled out of order: the fifth was over while the first was
\* still fetching, and the run is not over
C18_Witness ==
    /\ pc = "deliver"
    /\ disabled
    /\ Len(deliveries) = 5
    /\ deliveries[5].state = "fulfilled"
    /\ deliveries[1].state = "fetch"

\* C19: at most one run is active: the button is disabled, and the overlay
\* shown, exactly while a run is between its start and its end, so that no
\* click can start a second one; a run only ever runs with a non-empty prompt;
\* after a click with an empty prompt no run is active; and on each way a run
\* ends the button is enabled again.
C19_OneRunAtATime ==
    /\ disabled <=> pc # "idle"
    /\ statusDisplay = "flex" <=> pc # "idle"
    /\ pc # "idle" => userPrompt # ""
    /\ userPrompt = "" => pc = "idle" /\ ~ENABLED EnhanceReturn /\ ~ENABLED SubmitReturn
                                     /\ ~ENABLED PollOk /\ ~ENABLED FetchReturn
    /\ (RunSucceeded \/ RunAborted) => ~disabled /\ ENABLED Click

\* an empty click after a run that a poll failure ended: nothing is running
C19_Witness ==
    /\ userPrompt = ""
    /\ statusMessage.kind = "errPoll"
    /\ ~disabled
    /\ pc = "idle"

\* C20: every run ends and the batch loop cannot submit batches for ever. The
\* loop ends because videosGenerated reaches totalVideosToGenerate, so every
\* job whose poll loop ends without a failure must add to videosGenerated:
\* whenever the run goes on to the next batch, videosGenerated has grown.
C20_EveryBatchMakesProgress ==
    [][batchNumber' = batchNumber + 1 => videosGenerated' > videosGenerated]_vars

====
